---- MODULE Spec2Model ----
(***************************************************************************)
(* A model of the element/node layer of moxie-native:                      *)
(*   - src/dom/element.rs : Element, NodeChild, children(), the NodeChild  *)
(*     implementations for Node<Elt> and for String;                       *)
(*   - src/moxie/elements.rs : Builder (new/create/attr/on/add_child/      *)
(*     add_content/build) and the memo! slot that build() goes through.    *)
(* Node itself (crate::dom::Node), the concrete element kinds, the memo    *)
(* storage behind memo! and the two tree walks (crate::layout,             *)
(* crate::render) are modelled from their documented behaviour.            *)
(***************************************************************************)
EXTENDS Integers, Sequences, FiniteSets, TLC

VARIABLES
    slots,      \* memo storage: one slot per tree position (topo Id)
    stack,      \* Builders under construction, innermost last
    ret,        \* the Node a finished create() hands to its caller, or NoNode
    visited,    \* positions built so far in the running pass
    pass,       \* number of the running pass
    nextId,     \* next unused Node storage id
    last,       \* record of the most recent build() (history)
    calls,      \* the add_child/add_content arguments of each Builder on the stack (history)
    ncalls,     \* attr/on/add_child/add_content calls made in the running pass
    mode,       \* "build" while passes run; for the walks "idle", a running
                \* "iter", "paint" or "layout", a finished "called", "dropped",
                \* "painted" or "laid"
    tree,       \* walks: the root Node being walked
    opts0,      \* walks: the initial LayoutOptions given to the root
    got,        \* walks: the last direct NodeChild call and its result
    iter,       \* walks: the Iter of children(): [node, index]
    yielded,    \* walks: what each next() of the Iter returned, in order
    work,       \* walks: pending visits of the running walk, next first
    out,        \* walks: entries collected by the running walk
    prevOut,    \* walks: result of the preceding completed layout run
    runs,       \* walks: completed layout runs in a row
    lastOpts    \* walks: the LayoutOptions computed most recently (history)

buildVars == <<slots, stack, ret, visited, pass, nextId, last, calls, ncalls>>
walkVars == <<mode, tree, opts0, got, iter, yielded, work, out, prevOut, runs, lastOpts>>
vars == <<slots, stack, ret, visited, pass, nextId, last, calls, ncalls,
          mode, tree, opts0, got, iter, yielded, work, out, prevOut, runs, lastOpts>>

----------------------------------------------------------------------------
(* Bounds of the model *)

MaxCalls == 2
MaxPasses == 2
NumChildPositions == 2
MaxIndex == 3
MaxSize == 3

Texts == {"a", "b", "c"}
Keys == {"text_size"}
Vals == {"20"}
Handlers == {"click"}
TextSizes == {12, 16}
WalkTexts == {"a", "b"}

RootPosition == 0
ChildPositions == 1..NumChildPositions
Positions == {RootPosition} \cup ChildPositions

----------------------------------------------------------------------------
(* Element: the per-kind state (attributes and handler) *)

NoValue == "<unset>"
NoHandler == "<none>"

\* Elt::default()
ElementDefault == [attrs |-> [k \in Keys |-> NoValue], handler |-> NoHandler]

\* Element::set_attribute(&mut self, key, Some(value))
set_attribute(elt, key, value) ==
    [elt EXCEPT !.attrs = [elt.attrs EXCEPT ![key] = value]]

\* CanSetEvent::set_handler(&mut self, handler)
set_handler(elt, handler) == [elt EXCEPT !.handler = handler]

----------------------------------------------------------------------------
(* Node and the children of a Node *)

NoNode == [id |-> 0]

\* A child of an element: the tagged union over raw text and nested nodes
TextChild(s) == [kind |-> "Text", text |-> s]
NodeOf(n) == [kind |-> "Node", node |-> n]

\* Node::new(element, children): allocates storage `id`
NodeNew(id, elt, children) == [id |-> id, element |-> elt, children |-> children]

\* Structural value of a child / of a Node: everything but the storage ids
RECURSIVE ChildValue(_)
ChildValue(c) ==
    IF c.kind = "Text" THEN c
    ELSE [kind |-> "Node",
          element |-> c.node.element,
          children |-> [i \in 1..Len(c.node.children) |-> ChildValue(c.node.children[i])]]

NodeValue(n) == ChildValue(NodeOf(n))

\* PartialEq of Elt::Child
ChildEq(c, d) == ChildValue(c) = ChildValue(d)

\* PartialEq of Vec<Elt::Child>
ChildrenEq(cs, ds) ==
    /\ Len(cs) = Len(ds)
    /\ \A i \in 1..Len(cs) : ChildEq(cs[i], ds[i])

----------------------------------------------------------------------------
(* Builder *)

\* Builder::new()
BuilderNew(pos) == [pos |-> pos, element |-> ElementDefault, children |-> <<>>]

NoSlot == [pass |-> 0]

\* Faulty variant of KeyEq: children compared by storage identity
KeyEq_ByIdentity(elt, children, slot) ==
    /\ slot # NoSlot
    /\ slot.elt = elt
    /\ slot.children = children

\* Faulty variant of KeyEq: children compared by their number only
KeyEq_ByLength(elt, children, slot) ==
    /\ slot # NoSlot
    /\ slot.elt = elt
    /\ Len(slot.children) = Len(children)

\* PartialEq of the memo argument (Elt, Vec<Elt::Child>)
KeyEq(elt, children, slot) ==
    /\ slot # NoSlot
    /\ slot.elt = elt
    /\ ChildrenEq(slot.children, children)

\* Faulty variant of build: the key is the element alone
build_ElementKey(b, slot, id) ==
    IF slot # NoSlot /\ slot.elt = b.element
    THEN slot.stored
    ELSE NodeNew(id, b.element, b.children)

\* memo!((element, children), |(elt, children)| Node::new(elt.clone(), children.clone()))
\* at one position: the stored Node when the argument equals the stored
\* argument, otherwise a new Node.
build(b, slot, id) ==
    IF KeyEq(b.element, b.children, slot)
    THEN slot.stored
    ELSE NodeNew(id, b.element, b.children)

\* Faulty variant of CurrentId: every build() shares the slot of one call site
CurrentId_Shared(b) == RootPosition

\* The topo Id build() runs under: the position create() entered
CurrentId(b) == b.pos

Top == stack[Len(stack)]

\* Room for one more attr/on/add call in this pass, keeping one call for each
\* enclosing Builder to add the Node under construction
Room == ncalls + (Len(stack) - 1) < MaxCalls
Pop(s) == SubSeq(s, 1, Len(s) - 1)
SetTop(s, f) == [s EXCEPT ![Len(s)] = f]

NoLast == [pass |-> 0]

\* Builder::create: topo::call! enters a position, with_elem gets Builder::new()
Create(pos) ==
    /\ mode = "build"
    /\ ret = NoNode
    /\ pos \notin visited
    /\ \A i \in 1..Len(stack) : stack[i].pos # pos
    /\ IF stack = <<>>
       THEN pos = RootPosition /\ pass < MaxPasses /\ pass' = pass + 1
       ELSE Len(stack) = 1 /\ pos \in ChildPositions /\ Room /\ pass' = pass
    /\ stack' = Append(stack, BuilderNew(pos))
    /\ calls' = Append(calls, <<>>)
    /\ UNCHANGED <<slots, ret, visited, nextId, last, ncalls>>
    /\ UNCHANGED walkVars

\* Builder::attr(key, value)
Attr(key, value) ==
    /\ mode = "build"
    /\ stack # <<>>
    /\ ret = NoNode
    /\ Room
    /\ stack' = SetTop(stack, [Top EXCEPT !.element = set_attribute(Top.element, key, value)])
    /\ ncalls' = ncalls + 1
    /\ UNCHANGED <<slots, ret, visited, pass, nextId, last, calls>>
    /\ UNCHANGED walkVars

\* Builder::on(func)
On(handler) ==
    /\ mode = "build"
    /\ stack # <<>>
    /\ ret = NoNode
    /\ Room
    /\ stack' = SetTop(stack, [Top EXCEPT !.element = set_handler(Top.element, handler)])
    /\ ncalls' = ncalls + 1
    /\ UNCHANGED <<slots, ret, visited, pass, nextId, last, calls>>
    /\ UNCHANGED walkVars

\* self.children.push(child.into())
add_child(b, child) == [b EXCEPT !.children = Append(b.children, child)]

\* Faulty variant of add_content: the content replaces the children
add_content_Replace(b, child) == [b EXCEPT !.children = <<child>>]

add_content(b, child) == [b EXCEPT !.children = Append(b.children, child)]

\* The children a caller may pass, already converted by Into<Elt::Child>: the
\* Node a nested create() just returned, which has to be passed on, or raw text
Arguments ==
    IF ret # NoNode THEN {NodeOf(ret)} ELSE {TextChild(s) : s \in Texts}

\* Builder::add_child(child)
AddChild(child) ==
    /\ mode = "build"
    /\ stack # <<>>
    /\ ret # NoNode \/ Room
    /\ child \in Arguments
    /\ stack' = SetTop(stack, add_child(Top, child))
    /\ calls' = SetTop(calls, Append(calls[Len(calls)], child))
    /\ ret' = NoNode
    /\ ncalls' = ncalls + 1
    /\ UNCHANGED <<slots, visited, pass, nextId, last>>
    /\ UNCHANGED walkVars

\* Builder::add_content(child)
AddContent(child) ==
    /\ mode = "build"
    /\ stack # <<>>
    /\ ret # NoNode \/ Room
    /\ child \in Arguments
    /\ stack' = SetTop(stack, add_content(Top, child))
    /\ calls' = SetTop(calls, Append(calls[Len(calls)], child))
    /\ ret' = NoNode
    /\ ncalls' = ncalls + 1
    /\ UNCHANGED <<slots, visited, pass, nextId, last>>
    /\ UNCHANGED walkVars

\* Builder::build(self): consumes the Builder, goes through the memo slot of
\* its position, and returns the Node to the caller of create()
Build ==
    /\ mode = "build"
    /\ stack # <<>>
    /\ ret = NoNode
    /\ LET b == Top
           id == CurrentId(b)
           slot == slots[id]
           node == build(b, slot, nextId)
           hit == node.id # nextId
       IN /\ ret' = node
          /\ nextId' = IF hit THEN nextId ELSE nextId + 1
          /\ slots' = [slots EXCEPT ![id] =
                          IF hit THEN [slot EXCEPT !.pass = pass]
                          ELSE [pass |-> pass, elt |-> b.element,
                                children |-> b.children, stored |-> node]]
          /\ last' = [pass |-> pass, pos |-> b.pos, builder |-> b, prev |-> slot,
                      node |-> node, next |-> nextId]
    /\ stack' = Pop(stack)
    /\ calls' = Pop(calls)
    /\ visited' = visited \cup {Top.pos}
    /\ UNCHANGED <<pass, ncalls>>
    /\ UNCHANGED walkVars

\* The root create() returns its Node to the runtime: the pass is over
Return ==
    /\ mode = "build"
    /\ stack = <<>>
    /\ ret # NoNode
    /\ ret' = NoNode
    /\ visited' = {}
    /\ ncalls' = 0
    /\ UNCHANGED <<slots, stack, pass, nextId, last, calls>>
    /\ UNCHANGED walkVars

----------------------------------------------------------------------------
(* Option<T>: None is the empty sequence, Some(x) the sequence of x *)

None == <<>>
Some(x) == <<x>>

(* LayoutOptions, PaintDetails *)

ListLayout == [ty |-> "List"]
TextLayout(s) == [ty |-> "Text", text |-> s]
LayoutOptions(ty, size) == [layout_ty |-> ty, text_size |-> size]
PaintDetails(text) == [text |-> text]

\* The text size an attribute value stands for
ParseSize(v) == IF v = "20" THEN 20 ELSE 0

\* Element::create_layout_opts of a container kind: its own text_size
\* attribute when set, the parent's text size otherwise
ElementCreateLayoutOpts(elt, parent_opts) ==
    LayoutOptions(ListLayout,
                  IF elt.attrs["text_size"] = NoValue
                  THEN parent_opts.text_size
                  ELSE ParseSize(elt.attrs["text_size"]))

\* Element::paint, the provided method: no paint contribution
ElementPaint(elt) == None

----------------------------------------------------------------------------
(* impl NodeChild for Node<Elt> *)

NodePaint(n) == ElementPaint(n.element)

\* Faulty variant of NodeCreateLayoutOpts: the options computed last stand in for the parent's
NodeCreateLayoutOpts_Last(n, parent_opts) == ElementCreateLayoutOpts(n.element, lastOpts)

NodeCreateLayoutOpts(n, parent_opts) == ElementCreateLayoutOpts(n.element, parent_opts)

\* Faulty variant of NodeGetChild: one-based index
NodeGetChild_OneBased(n, index) ==
    IF index >= 1 /\ index <= Len(n.children) THEN Some(n.children[index]) ELSE None

\* self.children().get(child): indices are zero-based
NodeGetChild(n, index) ==
    IF index < Len(n.children) THEN Some(n.children[index + 1]) ELSE None

(* impl NodeChild for String *)

\* Faulty variant of StringPaint: the default PaintDetails, without the text
StringPaint_NoText(s) == Some(PaintDetails(None))

StringPaint(s) == Some(PaintDetails(Some(s)))

\* Faulty variant of StringCreateLayoutOpts: the text size is left to Default::default()
StringCreateLayoutOpts_DefaultSize(s, parent_opts) ==
    LayoutOptions(TextLayout(s), 0)

StringCreateLayoutOpts(s, parent_opts) ==
    LayoutOptions(TextLayout(s), parent_opts.text_size)

StringGetChild(s, index) == None

(* &dyn NodeChild: the call goes to the implementation of the child's kind *)

paint(c) ==
    IF c.kind = "Node" THEN NodePaint(c.node) ELSE StringPaint(c.text)

create_layout_opts(c, parent_opts) ==
    IF c.kind = "Node" THEN NodeCreateLayoutOpts(c.node, parent_opts)
    ELSE StringCreateLayoutOpts(c.text, parent_opts)

get_child(c, index) ==
    IF c.kind = "Node" THEN NodeGetChild(c.node, index) ELSE StringGetChild(c.text, index)

\* Faulty variant of children: the Iter starts at index 1
children_FromOne(c) == [node |-> c, index |-> 1]

\* children(node): Iter { node, index: 0 }
children(c) == [node |-> c, index |-> 0]

\* Faulty variant of IterNext: the index moves on by two
IterNext_Skip(it) ==
    [item |-> get_child(it.node, it.index), iter |-> [it EXCEPT !.index = it.index + 2]]

\* Iter::next: the child at the index, and the index moves on
IterNext(it) ==
    [item |-> get_child(it.node, it.index), iter |-> [it EXCEPT !.index = it.index + 1]]

\* `for child in children(node)`: the items up to the first None
RECURSIVE Drain(_)
Drain(it) ==
    LET r == IterNext(it)
    IN IF r.item = None \/ it.index > MaxIndex THEN <<>>
       ELSE <<r.item[1]>> \o Drain(r.iter)

----------------------------------------------------------------------------
(* The trees the walks are run on *)

WalkElements ==
    {ElementDefault} \cup {set_attribute(ElementDefault, k, v) : k \in Keys, v \in Vals}

RECURSIVE TextSeqs(_)
TextSeqs(n) ==
    IF n = 0 THEN {<<>>}
    ELSE {<<>>} \cup {<<TextChild(s)>> \o r : s \in WalkTexts, r \in TextSeqs(n - 1)}

Weight(c) == IF c.kind = "Text" THEN 1 ELSE 1 + Len(c.node.children)

\* The children a root can have with at most n children in the whole tree
Kids(n) ==
    IF n = 0 THEN {}
    ELSE {TextChild(s) : s \in WalkTexts}
         \cup {NodeOf(NodeNew(2, e, cs)) : e \in WalkElements, cs \in TextSeqs(n - 1)}

RECURSIVE KidSeqs(_)
KidSeqs(n) ==
    {<<>>} \cup UNION {{<<k>> \o r : r \in KidSeqs(n - Weight(k))} :
                          k \in {c \in Kids(n) : Weight(c) <= n}}

TreeSet == {NodeNew(1, e, cs) : e \in WalkElements, cs \in KidSeqs(MaxSize)}

Root == NodeOf(tree)

\* Every node of the tree, as a dispatchable child
Dispatchables ==
    {Root} \cup {c : c \in {tree.children[i] : i \in 1..Len(tree.children)}}
           \cup UNION {{c.node.children[j] : j \in 1..Len(c.node.children)} :
                          c \in {d \in {tree.children[i] : i \in 1..Len(tree.children)} :
                                    d.kind = "Node"}}

InitialOptions == {LayoutOptions(ListLayout, z) : z \in TextSizes}

NoCall == [op |-> "none"]
NoIter == [index |-> 0]

----------------------------------------------------------------------------
(* Direct calls of the three NodeChild methods *)

GetChild(c, index) ==
    /\ mode = "idle"
    /\ iter' = NoIter /\ yielded' = <<>> /\ work' = <<>> /\ out' = <<>>
    /\ got' = [op |-> "get_child", node |-> c, index |-> index, result |-> get_child(c, index)]
    /\ runs' = 0 /\ prevOut' = <<>>
    /\ mode' = "called"
    /\ UNCHANGED <<tree, opts0, lastOpts>>
    /\ UNCHANGED buildVars

CreateLayoutOpts(c, parent_opts) ==
    /\ mode = "idle"
    /\ iter' = NoIter /\ yielded' = <<>> /\ work' = <<>> /\ out' = <<>>
    /\ got' = [op |-> "create_layout_opts", node |-> c, parent_opts |-> parent_opts,
               result |-> create_layout_opts(c, parent_opts)]
    /\ lastOpts' = create_layout_opts(c, parent_opts)
    /\ runs' = 0 /\ prevOut' = <<>>
    /\ mode' = "called"
    /\ UNCHANGED <<tree, opts0>>
    /\ UNCHANGED buildVars

Paint(c) ==
    /\ mode = "idle"
    /\ iter' = NoIter /\ yielded' = <<>> /\ work' = <<>> /\ out' = <<>>
    /\ got' = [op |-> "paint", node |-> c, result |-> paint(c)]
    /\ runs' = 0 /\ prevOut' = <<>>
    /\ mode' = "called"
    /\ UNCHANGED <<tree, opts0, lastOpts>>
    /\ UNCHANGED buildVars

(* children(node) and the next() calls on the Iter it returns *)

Children(c) ==
    /\ mode = "idle"
    /\ got' = NoCall /\ yielded' = <<>> /\ work' = <<>> /\ out' = <<>>
    /\ iter' = children(c)
    /\ mode' = "iter"
    /\ runs' = 0 /\ prevOut' = <<>>
    /\ UNCHANGED <<tree, opts0, lastOpts>>
    /\ UNCHANGED buildVars

next ==
    /\ mode = "iter"
    /\ iter.index <= MaxIndex
    /\ LET r == IterNext(iter)
       IN /\ iter' = r.iter
          /\ yielded' = Append(yielded, r.item)
    /\ UNCHANGED <<mode, tree, opts0, got, work, out, prevOut, runs, lastOpts>>
    /\ UNCHANGED buildVars

\* The Iter is dropped
DropIter ==
    /\ mode = "iter"
    /\ mode' = "dropped"
    /\ UNCHANGED <<tree, opts0, got, iter, yielded, work, out, prevOut, runs, lastOpts>>
    /\ UNCHANGED buildVars

----------------------------------------------------------------------------
(* Paint collection: depth first, parent before children, children in
   insertion order; a node without paint contributes no entry *)

StartPaint ==
    /\ mode = "idle"
    /\ got' = NoCall /\ iter' = NoIter /\ yielded' = <<>> /\ out' = <<>>
    /\ work' = <<[node |-> Root, path |-> <<>>]>>
    /\ mode' = "paint"
    /\ runs' = 0 /\ prevOut' = <<>>
    /\ UNCHANGED <<tree, opts0, lastOpts>>
    /\ UNCHANGED buildVars

ChildVisits(v) ==
    LET cs == Drain(children(v.node))
    IN [i \in 1..Len(cs) |-> [node |-> cs[i], path |-> Append(v.path, i - 1)]]

PaintStep ==
    /\ mode = "paint"
    /\ work # <<>>
    /\ LET v == Head(work)
           p == paint(v.node)
       IN /\ out' = IF p = None THEN out ELSE Append(out, [path |-> v.path, paint |-> p[1]])
          /\ work' = ChildVisits(v) \o Tail(work)
    /\ mode' = IF work' = <<>> THEN "painted" ELSE "paint"
    /\ UNCHANGED <<tree, opts0, got, iter, yielded, prevOut, runs, lastOpts>>
    /\ UNCHANGED buildVars

(* Layout propagation: depth first, top down; a child is given the options
   just computed for its parent *)

StartLayout(o) ==
    /\ \/ mode = "idle"
       \/ mode = "laid" /\ runs = 1 /\ o = opts0
    /\ got' = NoCall /\ iter' = NoIter /\ yielded' = <<>> /\ out' = <<>>
    /\ opts0' = o
    /\ work' = <<[node |-> Root, path |-> <<>>, parent_opts |-> o]>>
    /\ prevOut' = out
    /\ mode' = "layout"
    /\ UNCHANGED <<tree, runs, lastOpts>>
    /\ UNCHANGED buildVars

LayoutStep ==
    /\ mode = "layout"
    /\ work # <<>>
    /\ LET v == Head(work)
           o == create_layout_opts(v.node, v.parent_opts)
           cs == ChildVisits(v)
       IN /\ out' = Append(out, [path |-> v.path, node |-> v.node, opts |-> o])
          /\ lastOpts' = o
          /\ work' = [i \in 1..Len(cs) |-> [node |-> cs[i].node, path |-> cs[i].path,
                                            parent_opts |-> o]] \o Tail(work)
    /\ mode' = IF work' = <<>> THEN "laid" ELSE "layout"
    /\ runs' = IF work' = <<>> THEN runs + 1 ELSE runs
    /\ UNCHANGED <<tree, opts0, got, iter, yielded, prevOut>>
    /\ UNCHANGED buildVars

\* The result of a finished call or walk is let go of
Reset ==
    /\ mode \in {"called", "dropped", "painted", "laid"}
    /\ mode' = "idle"
    /\ got' = NoCall /\ iter' = NoIter /\ yielded' = <<>> /\ work' = <<>> /\ out' = <<>>
    /\ prevOut' = <<>> /\ runs' = 0
    /\ opts0' = LayoutOptions(ListLayout, 0)
    /\ lastOpts' = LayoutOptions(ListLayout, 0)
    /\ UNCHANGED tree
    /\ UNCHANGED buildVars

----------------------------------------------------------------------------
(* Specifications *)

WalkIdle ==
    /\ tree = NoNode
    /\ opts0 = LayoutOptions(ListLayout, 0)
    /\ got = NoCall
    /\ iter = NoIter
    /\ yielded = <<>>
    /\ work = <<>>
    /\ out = <<>>
    /\ prevOut = <<>>
    /\ runs = 0
    /\ lastOpts = LayoutOptions(ListLayout, 0)

BuildIdle ==
    /\ slots = [p \in Positions |-> NoSlot]
    /\ stack = <<>>
    /\ ret = NoNode
    /\ visited = {}
    /\ pass = 0
    /\ nextId = 1
    /\ last = NoLast
    /\ calls = <<>>
    /\ ncalls = 0

\* Construction passes: the memo storage is empty, no Builder exists
Init ==
    /\ mode = "build"
    /\ BuildIdle
    /\ WalkIdle

Next ==
    \/ \E pos \in Positions : Create(pos)
    \/ \E k \in Keys, v \in Vals : Attr(k, v)
    \/ \E h \in Handlers : On(h)
    \/ \E c \in Arguments : AddChild(c)
    \/ \E c \in Arguments : AddContent(c)
    \/ Build
    \/ Return

Spec == Init /\ [][Next]_vars

\* Walks over a finished tree
InitWalk ==
    /\ mode = "idle"
    /\ BuildIdle
    /\ tree \in TreeSet
    /\ opts0 = LayoutOptions(ListLayout, 0)
    /\ got = NoCall
    /\ iter = NoIter
    /\ yielded = <<>>
    /\ work = <<>>
    /\ out = <<>>
    /\ prevOut = <<>>
    /\ runs = 0
    /\ lastOpts = LayoutOptions(ListLayout, 0)

NextWalk ==
    \/ \E c \in Dispatchables, i \in 0..MaxIndex : GetChild(c, i)
    \/ \E c \in Dispatchables, o \in InitialOptions : CreateLayoutOpts(c, o)
    \/ \E c \in Dispatchables : Paint(c)
    \/ \E c \in Dispatchables : Children(c)
    \/ next
    \/ DropIter
    \/ StartPaint
    \/ PaintStep
    \/ \E o \in InitialOptions : StartLayout(o)
    \/ LayoutStep
    \/ Reset

SpecWalk == InitWalk /\ [][NextWalk]_vars

----------------------------------------------------------------------------
(* Properties of the Builder and its memo slot (specification Spec) *)

Built == last # NoLast

\* The Builder of the last build() has the key stored in the slot it found
SameKey(l) ==
    /\ l.prev # NoSlot
    /\ l.prev.elt = l.builder.element
    /\ Len(l.prev.children) = Len(l.builder.children)
    /\ \A i \in 1..Len(l.builder.children) :
          ChildValue(l.prev.children[i]) = ChildValue(l.builder.children[i])

\* The last build() returned storage allocated by that very call
FreshNode(l) == l.node.id >= l.next

\* C1: a build() whose element state and children equal the key of the build
\* at the same position on the preceding pass returns the Node stored then:
\* same storage, nothing allocated.
C1_MemoSoundness ==
    (Built /\ SameKey(last) /\ last.prev.pass + 1 = last.pass)
        => /\ last.node = last.prev.stored
           /\ ~FreshNode(last)

C1_Witness ==
    /\ Built /\ SameKey(last) /\ last.prev.pass + 1 = last.pass
    /\ last.node = last.prev.stored
    /\ \E i \in 1..Len(last.builder.children) :
          /\ last.builder.children[i].kind = "Node"
          /\ last.builder.children[i].node.id # last.prev.children[i].node.id

\* C2: a build() that finds no prior value, or a key that differs in the
\* element state or in a child, returns a newly allocated Node holding the
\* Builder's element and children, and that Node is now in the slot.
C2_MemoCorrectness ==
    (Built /\ ~SameKey(last))
        => /\ FreshNode(last)
           /\ last.node.element = last.builder.element
           /\ last.node.children = last.builder.children
           /\ slots[last.pos] # NoSlot
           /\ slots[last.pos].stored = last.node
           /\ slots[last.pos].elt = last.builder.element
           /\ slots[last.pos].children = last.builder.children

C2_Witness ==
    /\ Built /\ ~SameKey(last) /\ last.prev # NoSlot
    /\ last.prev.elt = last.builder.element
    /\ Len(last.prev.children) = 2 /\ Len(last.builder.children) = 2
    /\ last.prev.children[1] = last.builder.children[1]
    /\ FreshNode(last)
    /\ last.node.id # last.prev.stored.id

\* C8: every Builder on the stack holds exactly the arguments of its
\* add_child/add_content calls, in call order; a new Builder is the default
\* element without children; attr and on keep the children, add_child and
\* add_content keep the element.
C8_Children == \A i \in 1..Len(stack) : stack[i].children = calls[i]

C8_Step ==
    /\ Len(stack') > Len(stack)
          => /\ stack'[Len(stack')].element = ElementDefault
             /\ stack'[Len(stack')].children = <<>>
    /\ (Len(stack') = Len(stack) /\ stack # <<>>)
          => /\ calls' = calls => Top.children = stack'[Len(stack')].children
             /\ calls' # calls
                   => /\ Top.element = stack'[Len(stack')].element
                      /\ Len(stack'[Len(stack')].children) = Len(Top.children) + 1
                      /\ SubSeq(stack'[Len(stack')].children, 1, Len(Top.children))
                            = Top.children
             /\ \A i \in 1..(Len(stack) - 1) : stack'[i] = stack[i]

C8_BuilderAccumulation == [](C8_Children) /\ [][C8_Step]_vars

C8_Witness ==
    /\ stack # <<>>
    /\ Len(Top.children) = 2
    /\ Top.children[1] = Top.children[2]
    /\ Top.children = calls[Len(calls)]

\* C9: a build() changes the memo slot of its own position only: the slot of
\* every other position is what it was before the call.
C9_Step ==
    Len(stack') < Len(stack)
        => \A q \in Positions \ {Top.pos} : slots'[q] = slots[q]

C9_SlotPerPosition == [][C9_Step]_vars

\* The container is built anew because its second child went from "b" to "c",
\* while its first child, built at its own position with an equal key, was a hit
C9_Witness ==
    /\ Built /\ last.pos = RootPosition /\ FreshNode(last)
    /\ last.prev # NoSlot
    /\ Len(last.builder.children) = 2 /\ Len(last.prev.children) = 2
    /\ last.prev.children[2] = TextChild("b")
    /\ last.builder.children[2] = TextChild("c")
    /\ last.builder.children[1].kind = "Node"
    /\ last.builder.children[1] = last.prev.children[1]
    /\ \E q \in ChildPositions :
          /\ slots[q] # NoSlot
          /\ slots[q].pass = last.pass
          /\ slots[q].stored = last.builder.children[1].node

\* C10: whatever build() returns, hit or miss, has the structure a Node made
\* from the Builder would have: the Builder's element and, child by child, the
\* Builder's children.
C10_MemoTransparent ==
    Built => NodeValue(last.node)
                = NodeValue(NodeNew(0, last.builder.element, last.builder.children))

C10_Witness ==
    /\ Built /\ ~FreshNode(last)
    /\ last.pass = MaxPasses
    /\ last.builder.children # <<>>
    /\ NodeValue(last.node)
          = NodeValue(NodeNew(0, last.builder.element, last.builder.children))

----------------------------------------------------------------------------
(* Properties of the NodeChild methods and the walks (specification SpecWalk) *)

\* The children a dispatchable child has, by its structure
KidsOf(c) == IF c.kind = "Node" THEN c.node.children ELSE <<>>

\* C3: the Iter of children(N) returns the k children of N in insertion
\* order, one per next(), each once, and nothing from then on; the index it
\* asks get_child for goes 0, 1, 2, ...
C3_TraversalComplete ==
    mode \in {"iter", "dropped"}
        => /\ iter.index = Len(yielded)
           /\ \A j \in 1..Len(yielded) :
                 yielded[j] = IF j <= Len(KidsOf(iter.node))
                              THEN Some(KidsOf(iter.node)[j]) ELSE None

C3_Witness ==
    /\ mode = "iter"
    /\ Len(KidsOf(iter.node)) = 2
    /\ Len(yielded) = 3
    /\ yielded[1] = Some(KidsOf(iter.node)[1])
    /\ yielded[2] = Some(KidsOf(iter.node)[2])
    /\ yielded[3] = None

\* C4: get_child(index) of a Node with k children is the child at that
\* zero-based position for index < k and nothing for index >= k.
C4_GetChild ==
    (mode = "called" /\ got.op = "get_child" /\ got.node.kind = "Node")
        => got.result = IF got.index < Len(got.node.node.children)
                        THEN Some(got.node.node.children[got.index + 1])
                        ELSE None

C4_Witness ==
    /\ mode = "called" /\ got.op = "get_child" /\ got.node.kind = "Node"
    /\ Len(got.node.node.children) = 2
    /\ got.index = 2
    /\ got.result = None

\* C5: raw text s has no child at any index, lays out as Text(s) with the
\* parent's text size, and paints as PaintDetails with text s.
C5_TextLeaf ==
    (mode = "called" /\ got.node.kind = "Text")
        => /\ got.op = "get_child" => got.result = None
           /\ got.op = "create_layout_opts"
                 => /\ got.result.layout_ty = TextLayout(got.node.text)
                    /\ got.result.text_size = got.parent_opts.text_size
           /\ got.op = "paint"
                 => got.result = Some(PaintDetails(Some(got.node.text)))

C5_Witness ==
    /\ mode = "called" /\ got.node.kind = "Text"
    /\ got.op = "create_layout_opts"
    /\ got.parent_opts.text_size = 16
    /\ got.result = LayoutOptions(TextLayout(got.node.text), 16)

\* The paint entries of a subtree in document order: the node's own, then
\* those of its children, first child first
RECURSIVE PaintEntries(_, _)
PaintEntries(c, path) ==
    IF c.kind = "Text" THEN <<[path |-> path, paint |-> PaintDetails(Some(c.text))]>>
    ELSE LET RECURSIVE From(_)
             From(i) == IF i > Len(c.node.children) THEN <<>>
                        ELSE PaintEntries(c.node.children[i], Append(path, i - 1))
                                \o From(i + 1)
         IN From(1)

EntryAt(path) == CHOOSE e \in {out[i] : i \in 1..Len(out)} : e.path = path

====
